---- MODULE Spec2Model ----
(***************************************************************************)
(* Model of the log formatter of lancer05/logger: parseIP (util.go),       *)
(* stackTrace / extractError, richRequest and LogsV1Formatter.Format with  *)
(* the process-wide record pool logsV1Pool (formatter.go).                 *)
(*                                                                         *)
(* Text is modelled as a sequence of tokens (a character, or an atom that  *)
(* stands for a run of ordinary characters), so that splitting, trimming,  *)
(* joining and replacing are computed, not assumed.                        *)
(***************************************************************************)
EXTENDS Integers, Sequences, FiniteSets, TLC

VARIABLES
    remoteAddr, ip, ipCalls,          \* parseIP: argument, result, calls made
    err, errPc, errMsg, errTrace, errCtx,  \* extractError: argument, position, results
    hreq, hpre, hargs, hout, hcalls,  \* richRequest: request, request before the
                                      \* last call, status/duration, results, calls
    workload,   \* "seq": one caller; "conc": concurrent callers
    pc,         \* per caller: position inside Format, "idle" outside
    entry,      \* per caller: the logrus.Entry passed to Format
    req,        \* per caller: the *http.Request the entry refers to
    buf,        \* per caller: contents of entry.Buffer
    held,       \* per caller: the pooled record in hand (0: none)
    ret,        \* per caller: what the last Format call returned
    prev,       \* per caller: what the call before returned, same entry
    calls,      \* per caller: Format calls started
    acc,        \* per caller: the accesses of this call to its record
    rec,        \* the LogsV1 records allocated by logsV1Pool.New
    free        \* the records lying in logsV1Pool

ipVars == <<remoteAddr, ip, ipCalls>>
errVars == <<err, errPc, errMsg, errTrace, errCtx>>
richVars == <<hreq, hpre, hargs, hout, hcalls>>
fmtVars == <<workload, pc, entry, req, buf, held, ret, prev, calls, acc, rec, free>>
vars == <<ipVars, errVars, richVars, fmtVars>>

(***************************************************************************)
(* Bounds.                                                                 *)
(***************************************************************************)
MaxAddrLen == 5
MaxFrames == 15
MaxRichCalls == 2
MaxCalls == 2
MaxRecords == 2

(***************************************************************************)
(* Each specification below exercises one part of the program; the state   *)
(* of the other parts then rests at these values.                          *)
(***************************************************************************)
IdleIP == remoteAddr = <<>> /\ ip = <<>> /\ ipCalls = 0

IdleErr ==
    /\ err = <<>> /\ errPc = "off" /\ errMsg = "" /\ errTrace = <<>> /\ errCtx = <<>>

IdleReq == hreq = <<>> /\ hpre = <<>> /\ hargs = <<>> /\ hout = <<>> /\ hcalls = 0

IdleFmt ==
    /\ workload = "off"
    /\ pc = <<>> /\ entry = <<>> /\ req = <<>> /\ buf = <<>> /\ held = <<>>
    /\ ret = <<>> /\ prev = <<>> /\ calls = <<>> /\ acc = <<>>
    /\ rec = <<>> /\ free = {}

(***************************************************************************)
(* Generic text helpers (package strings).                                 *)
(***************************************************************************)
Alphabet == {"[", "]", ":", "h"}

RECURSIVE StringsOfLen(_)
StringsOfLen(n) ==
    IF n = 0 THEN {<<>>}
    ELSE {Append(s, c) : s \in StringsOfLen(n - 1), c \in Alphabet}

Addrs == UNION {StringsOfLen(n) : n \in 0..MaxAddrLen}

\* strings.HasPrefix(s, c) for a one-character prefix
HasPrefix(s, c) == Len(s) > 0 /\ s[1] = c

\* strings.Count(s, c) for a one-character needle
Count(s, c) == Cardinality({i \in 1..Len(s) : s[i] = c})

\* bytealg.IndexByteString, 0-based as in Go, -1 when absent
IndexByte(s, c) ==
    IF \E i \in 1..Len(s) : s[i] = c
    THEN (CHOOSE i \in 1..Len(s) : s[i] = c /\ \A j \in 1..(i - 1) : s[j] # c) - 1
    ELSE -1

\* net.last: 0-based index of the last occurrence, -1 when absent
LastIndexByte(s, c) ==
    IF \E i \in 1..Len(s) : s[i] = c
    THEN (CHOOSE i \in 1..Len(s) : s[i] = c /\ \A j \in (i + 1)..Len(s) : s[j] # c) - 1
    ELSE -1

\* Go slice s[a:b] with 0-based bounds
Slice(s, a, b) == SubSeq(s, a + 1, b)

(***************************************************************************)
(* net.SplitHostPort as parseIP calls it: [host, port, ok].                *)
(***************************************************************************)
AddrErr == [host |-> <<>>, port |-> <<>>, ok |-> FALSE]

SplitHostPort(hostport) ==
    LET i == LastIndexByte(hostport, ":")
        end == IndexByte(hostport, "]")
        bracket == hostport[1] = "["
        host == IF bracket THEN Slice(hostport, 1, end) ELSE Slice(hostport, 0, i)
        j == IF bracket THEN 1 ELSE 0
        k == IF bracket THEN end + 1 ELSE 0
    IN  IF i < 0 THEN AddrErr
        ELSE IF bracket /\ end < 0 THEN AddrErr
        ELSE IF bracket /\ end + 1 = Len(hostport) THEN AddrErr
        ELSE IF bracket /\ end + 1 # i THEN AddrErr
        ELSE IF ~bracket /\ IndexByte(host, ":") >= 0 THEN AddrErr
        ELSE IF IndexByte(Slice(hostport, j, Len(hostport)), "[") >= 0 THEN AddrErr
        ELSE IF IndexByte(Slice(hostport, k, Len(hostport)), "]") >= 0 THEN AddrErr
        ELSE [host |-> host, port |-> Slice(hostport, i + 1, Len(hostport)), ok |-> TRUE]

(***************************************************************************)
(* parseIP (util.go).                                                      *)
(***************************************************************************)
parseIPNoBracket(addr) ==
    IF Count(addr, ":") = 1
    THEN SplitHostPort(addr).host
    ELSE addr

parseIP(addr) ==
    IF HasPrefix(addr, "[") \/ Count(addr, ":") = 1
    THEN SplitHostPort(addr).host
    ELSE addr

(***************************************************************************)
(* Specification SpecIP: parseIP applied to every bounded address.         *)
(***************************************************************************)
NotCalled == <<"<not called>">>

InitIP ==
    /\ remoteAddr \in Addrs
    /\ ip = NotCalled
    /\ ipCalls = 0
    /\ IdleErr /\ IdleReq /\ IdleFmt

CallParseIP ==
    /\ ipCalls = 0
    /\ ip' = parseIP(remoteAddr)
    /\ ipCalls' = 1
    /\ UNCHANGED <<remoteAddr, errVars, richVars, fmtVars>>

NextIP == CallParseIP

SpecIP == InitIP /\ [][NextIP]_vars

\* C10: parseIP returns the input unchanged when it neither starts with "["
\* nor holds exactly one ":"; otherwise it returns the host of the host:port
\* split, without brackets and port, and the empty string when the split fails.
IsHostPortOf(s, h) ==
    \/ \E p \in 0..Len(s) :
          /\ s = h \o <<":">> \o Slice(s, Len(s) - p, Len(s))
          /\ Count(h, ":") = 0
    \/ \E p \in 0..Len(s) :
          s = <<"[">> \o h \o <<"]", ":">> \o Slice(s, Len(s) - p, Len(s))

C10_ParseIP ==
    ipCalls = 1 =>
        IF ~HasPrefix(remoteAddr, "[") /\ Count(remoteAddr, ":") # 1
        THEN ip = remoteAddr
        ELSE /\ Count(ip, "[") = 0 /\ Count(ip, "]") = 0
             /\ IF SplitHostPort(remoteAddr).ok
                THEN IsHostPortOf(remoteAddr, ip)
                ELSE ip = <<>>

\* a bracketed address with a port has been reduced to its bare host
C10_Witness ==
    /\ ipCalls = 1
    /\ remoteAddr = <<"[", "h", "]", ":", "h">>
    /\ ip = <<"h">>

(***************************************************************************)
(* Error values and the stack trace text (github.com/pkg/errors).          *)
(* An error is [tag, msg, tracer, frames]: tracer says whether it          *)
(* implements stackTracer, frames is the length of its StackTrace().       *)
(***************************************************************************)
NL == "\n"
TAB == "\t"
SP == " "

MaxStackTrace == 10

ErrValue(msg, tracer, frames) ==
    [tag |-> "error", msg |-> msg, tracer |-> tracer, frames |-> frames]

FrameFunc(k) == "fn" \o ToString(k)
FrameLoc(k) == "file" \o ToString(k) \o ":" \o ToString(k)

\* fmt.Sprintf("%+v", err.StackTrace()): "\n" func "\n\t" file ":" line per frame
RECURSIVE SprintfStack(_, _)
SprintfStack(k, n) ==
    IF k > n THEN <<>>
    ELSE <<NL, FrameFunc(k), NL, TAB, FrameLoc(k)>> \o SprintfStack(k + 1, n)

\* strings.TrimLeft(s, c)
RECURSIVE TrimLeft(_, _)
TrimLeft(s, c) ==
    IF Len(s) > 0 /\ s[1] = c THEN TrimLeft(Tail(s), c) ELSE s

\* strings.ReplaceAll(s, <<a, b>>, <<c>>)
RECURSIVE ReplaceAll2(_, _, _, _)
ReplaceAll2(s, a, b, c) ==
    IF Len(s) = 0 THEN <<>>
    ELSE IF Len(s) >= 2 /\ s[1] = a /\ s[2] = b
         THEN <<c>> \o ReplaceAll2(SubSeq(s, 3, Len(s)), a, b, c)
         ELSE <<s[1]>> \o ReplaceAll2(Tail(s), a, b, c)

\* strings.Split(s, sep): always at least one piece, the empty text included
RECURSIVE Split(_, _)
Split(s, sep) ==
    LET i == IndexByte(s, sep)
    IN  IF i < 0 THEN <<s>>
        ELSE <<Slice(s, 0, i)>> \o Split(Slice(s, i + 1, Len(s)), sep)

emptyStack == <<>>

stackTrace(e) ==
    IF e.tracer
    THEN Split(ReplaceAll2(TrimLeft(SprintfStack(1, e.frames), NL), NL, TAB, SP), NL)
    ELSE emptyStack

extractError(e) ==
    LET st == stackTrace(e)
        trace == IF Len(st) > 0
                 THEN (IF Len(st) >= MaxStackTrace THEN SubSeq(st, 1, MaxStackTrace) ELSE st)
                 ELSE <<>>
    IN  [msg |-> e.msg, trace |-> trace]

\* the default branch of Format's field loop for an error value:
\* logrus.Fields{"msg": msg} plus "trace" when the trace is not empty
ErrFields(e) ==
    LET x == extractError(e)
    IN  IF Len(x.trace) > 0
        THEN [tag |-> "fields", f |-> ("msg" :> x.msg) @@ ("trace" :> x.trace)]
        ELSE [tag |-> "fields", f |-> ("msg" :> x.msg)]

(***************************************************************************)
(* Specification SpecErr: extractError and the error branch of the field   *)
(* loop, applied to every bounded error value.                             *)
(***************************************************************************)
ErrMsgs == {"error occurred", ""}

InitErr ==
    /\ err \in {ErrValue(m, t, n) : m \in ErrMsgs, t \in BOOLEAN, n \in 0..MaxFrames}
    /\ errPc = "start"
    /\ errMsg = ""
    /\ errTrace = <<>>
    /\ errCtx = [tag |-> "fields", f |-> <<>>]
    /\ IdleIP /\ IdleReq /\ IdleFmt

CallExtractError ==
    /\ errPc = "start"
    /\ errMsg' = extractError(err).msg
    /\ errTrace' = extractError(err).trace
    /\ errPc' = "extracted"
    /\ UNCHANGED <<err, errCtx, ipVars, richVars, fmtVars>>

StoreErrFields ==
    /\ errPc = "extracted"
    /\ errCtx' = ErrFields(err)
    /\ errPc' = "stored"
    /\ UNCHANGED <<err, errMsg, errTrace, ipVars, richVars, fmtVars>>

NextErr == CallExtractError \/ StoreErrFields

SpecErr == InitErr /\ [][NextErr]_vars

Min(a, b) == IF a < b THEN a ELSE b

\* what one frame reads as once it is on one line
FrameLine(k) == <<FrameFunc(k), SP, FrameLoc(k)>>

ExposedFrames(e) == IF e.tracer THEN e.frames ELSE 0

\* C9: extractError returns the error's own message and exactly the first
\* min(n, MaxStackTrace) frames in order, one string per frame; with no
\* stack-trace capability or zero frames the trace is empty and the ctx
\* entry holds only msg.
C9_BoundedTrace ==
    /\ errPc # "start" =>
          /\ errMsg = err.msg
          /\ errTrace = [k \in 1..Min(ExposedFrames(err), MaxStackTrace) |-> FrameLine(k)]
    /\ errPc = "stored" =>
          /\ errCtx.f["msg"] = err.msg
          /\ (ExposedFrames(err) = 0 => DOMAIN errCtx.f = {"msg"})
          /\ (ExposedFrames(err) > 0 =>
                /\ DOMAIN errCtx.f = {"msg", "trace"}
                /\ errCtx.f["trace"] = errTrace)

(***************************************************************************)
(* Field values (interface{} values of logrus.Fields).                     *)
(***************************************************************************)
Str(x) == [tag |-> "string", s |-> x]
Num(x) == [tag |-> "int", n |-> x]
Strings(x) == [tag |-> "strings", l |-> x]
Chan == [tag |-> "chan"]          \* a value encoding/json cannot serialize
ReqPtr == [tag |-> "request"]     \* the caller's *http.Request

\* fmt.Sprintf("%v", v)
Sprint(v) ==
    CASE v.tag = "string" -> v.s
      [] v.tag = "int" -> ToString(v.n)
      [] v.tag = "error" -> v.msg
      [] OTHER -> "0xc000010000"

(***************************************************************************)
(* http.Request as richRequest reads and changes it.                       *)
(*   Header   raw header name -> sequence of values (token sequences)      *)
(*   URL      [nil, Path, RawQuery]                                        *)
(*   PostForm [nil, m]   m: key -> sequence of strings                     *)
(*   FormNil  whether req.Form is still nil                                *)
(*   Body     [nil, text, fails]  the unread text; fails: Read errors      *)
(***************************************************************************)
JSONCT == <<"application/json", ";", " charset=UTF-8">>
FORMCT == <<"application/x-www-form-urlencoded">>
FORMJSONCT == <<"application/x-www-form-urlencoded", ";", " x=", "application/json">>
TEXTCT == <<"text/plain">>

JSONObjText == "{\"jsonParam\":\"brz\",\"dup\":\"json\"}"
JSONArrText == "[1]"
FormText == "formPram=baz&dup=form"
BadFormText == "formPram=baz&bad=%zz"

\* strings.ToLower on a header name
ToLower(k) ==
    CASE k = "Content-Type" -> "content-type"
      [] k = "X-Test" -> "x-test"
      [] OTHER -> k

\* strings.Join(v, ", ")
RECURSIVE Join(_)
Join(v) ==
    IF Len(v) = 0 THEN <<>>
    ELSE IF Len(v) = 1 THEN v[1]
    ELSE v[1] \o <<", ">> \o Join(Tail(v))

\* strings.Contains(s, "application/json")
ContainsJSON(s) == \E i \in 1..Len(s) : s[i] = "application/json"

\* mime.ParseMediaType(ct): the media type is the text before the first ";"
MediaType(ct) ==
    IF IndexByte(ct, ";") < 0 THEN ct ELSE Slice(ct, 0, IndexByte(ct, ";"))

\* url.ParseQuery: the pairs that parse, and whether every pair parsed
ParseQuery(text) ==
    CASE text = "" -> [vals |-> <<>>, ok |-> TRUE]
      [] text = "getPram=bar&dup=query" ->
            [vals |-> ("getPram" :> <<"bar">>) @@ ("dup" :> <<"query">>), ok |-> TRUE]
      [] text = "multi=1&multi=2" ->
            [vals |-> ("multi" :> <<"1", "2">>), ok |-> TRUE]
      [] text = "getPram=bar&bad=%zz" ->
            [vals |-> ("getPram" :> <<"bar">>), ok |-> FALSE]
      [] text = FormText ->
            [vals |-> ("formPram" :> <<"baz">>) @@ ("dup" :> <<"form">>), ok |-> TRUE]
      [] text = BadFormText ->
            [vals |-> ("formPram" :> <<"baz">>), ok |-> FALSE]
      [] OTHER -> [vals |-> (text :> <<"">>), ok |-> TRUE]

\* jsoniter Decode into map[string]interface{}
JSONDecode(text) ==
    CASE text = JSONObjText ->
            [obj |-> ("jsonParam" :> Str("brz")) @@ ("dup" :> Str("json")), ok |-> TRUE]
      [] OTHER -> [obj |-> <<>>, ok |-> FALSE]

NilValues == [nil |-> TRUE, m |-> <<>>]
Values(m) == [nil |-> FALSE, m |-> m]
NilBody == [nil |-> TRUE, text |-> "", fails |-> FALSE]

\* io.ReadAll(body): [data, err, body]; the reader is left drained
ReadAll(b) == [data |-> b.text, err |-> b.fails, body |-> [b EXCEPT !.text = ""]]

Body(text) == [nil |-> FALSE, text |-> text, fails |-> FALSE]
FailingBody == [nil |-> FALSE, text |-> "", fails |-> TRUE]
NilURL == [nil |-> TRUE, Path |-> "", RawQuery |-> ""]
URL(q) == [nil |-> FALSE, Path |-> "/api", RawQuery |-> q]

\* http.Header.Get("Content-Type"): the first value under the canonical name
HeaderGetContentType(h) ==
    IF "Content-Type" \in DOMAIN h /\ Len(h["Content-Type"]) > 0
    THEN h["Content-Type"][1]
    ELSE <<>>

\* net/http parsePostForm: [vs, err, body]
parsePostForm(r) ==
    IF r.Body.nil THEN [vs |-> NilValues, err |-> TRUE, body |-> r.Body]
    ELSE IF MediaType(HeaderGetContentType(r.Header)) = FORMCT
         THEN IF ReadAll(r.Body).err
              THEN [vs |-> NilValues, err |-> TRUE, body |-> ReadAll(r.Body).body]
              ELSE [vs |-> Values(ParseQuery(ReadAll(r.Body).data).vals),
                    err |-> ~ParseQuery(ReadAll(r.Body).data).ok,
                    body |-> ReadAll(r.Body).body]
         ELSE [vs |-> NilValues, err |-> FALSE, body |-> r.Body]

\* net/http (*Request).ParseForm: [req, err]; called with req.URL # nil
ParseForm(r) ==
    LET post == r.PostForm.nil /\ r.Method \in {"POST", "PUT", "PATCH"}
        pp == IF post THEN parsePostForm(r)
              ELSE [vs |-> NilValues, err |-> FALSE, body |-> r.Body]
        postForm == IF ~r.PostForm.nil THEN r.PostForm
                    ELSE IF pp.vs.nil THEN Values(<<>>) ELSE pp.vs
        qerr == r.FormNil /\ ~ParseQuery(r.URL.RawQuery).ok
    IN  [req |-> [r EXCEPT !.PostForm = postForm, !.FormNil = FALSE, !.Body = pp.body],
         err |-> pp.err \/ qerr]

(***************************************************************************)
(* richRequest.                                                            *)
(***************************************************************************)
NilRequestData == [nil |-> TRUE]

HeaderValue(v) == IF Len(v) > 1 THEN Join(v) ELSE v[1]

\* the header loop: each lower-cased name gets the value of one of the raw
\* names that lower-case to it (the one the map iteration visits last)
\* (no outcome but the panic when a name has no value: v[0] is out of range)
HeaderViews(h) ==
    IF \E k \in DOMAIN h : Len(h[k]) = 0 THEN {<<>>}
    ELSE
    LET lower == {ToLower(k) : k \in DOMAIN h}
        vals == {HeaderValue(h[k]) : k \in DOMAIN h}
    IN  {f \in [lower -> vals] :
            \A lk \in lower : \E k \in DOMAIN h : ToLower(k) = lk /\ f[lk] = HeaderValue(h[k])}

\* request.Headers["content-type"], "" when absent
ContentTypeOf(headers) ==
    IF "content-type" \in DOMAIN headers THEN headers["content-type"] ELSE <<>>

ParamValue(v) == IF Len(v) > 1 THEN Strings(v) ELSE Str(v[1])
ParamsOf(vals) == [k \in DOMAIN vals |-> ParamValue(vals[k])]

\* the three sources applied in order: a later assignment overwrites
MergeParamsQueryLast(query, form, json) == query @@ form @@ json

MergeParams(query, form, json) == json @@ form @@ query

\* the body is left as the read left it
RestoreBodyNone(body, tmpBody) == body

\* req.Body = ioutil.NopCloser(bytes.NewReader(tmpBody))
RestoreBody(body, tmpBody) == Body(tmpBody)

Panic(r) == [panic |-> TRUE, req |-> r, data |-> NilRequestData]

\* headers: the outcome of the header loop, one of HeaderViews(req.Header)
richRequest(r, status, duration, headers) ==
    IF r.URL.nil THEN Panic(r)
    ELSE IF \E k \in DOMAIN r.Header : Len(r.Header[k]) = 0 THEN Panic(r)
    ELSE
    LET query == ParamsOf(ParseQuery(r.URL.RawQuery).vals)
        pf == ParseForm(r)
        r1 == pf.req
        formUsed == ~pf.err
    IN  IF formUsed /\ \E k \in DOMAIN r1.PostForm.m : Len(r1.PostForm.m[k]) = 0
        THEN Panic(r1)
        ELSE
        LET form == IF formUsed THEN ParamsOf(r1.PostForm.m) ELSE <<>>
            isJSON == ContainsJSON(ContentTypeOf(headers))
        IN  IF isJSON /\ r1.Body.nil THEN Panic(r1)
            ELSE
            LET rd == ReadAll(r1.Body)
                readOk == isJSON /\ ~rd.err
                tmpBody == rd.data
                r2 == IF readOk THEN [r1 EXCEPT !.Body = RestoreBody(rd.body, tmpBody)]
                      ELSE IF isJSON THEN [r1 EXCEPT !.Body = rd.body]
                      ELSE r1
                json == IF readOk /\ JSONDecode(tmpBody).ok
                        THEN JSONDecode(tmpBody).obj
                        ELSE <<>>
            IN  [panic |-> FALSE,
                 req |-> r2,
                 data |-> [IP |-> parseIP(r.RemoteAddr),
                           Method |-> r.Method,
                           Path |-> r.URL.Path,
                           Status |-> status,
                           Duration |-> duration,
                           Headers |-> headers,
                           Param |-> MergeParams(query, form, json)]]

(***************************************************************************)
(* Bounded requests.                                                       *)
(***************************************************************************)
HostPort == <<"h", ":", "h">>
BadAddr == <<"[", "h">>

HeaderOpts ==
    { <<>>,
      ("Content-Type" :> <<JSONCT>>) @@ ("X-Test" :> <<<<"1">>, <<"2">>>>),
      ("Content-Type" :> <<FORMCT>>),
      ("Content-Type" :> <<FORMJSONCT>>),
      ("Content-Type" :> <<FORMCT, JSONCT>>),
      ("Content-Type" :> <<TEXTCT>>) @@ ("content-type" :> <<JSONCT>>),
      ("X-Test" :> <<>>) }

QueryOpts == {"", "getPram=bar&dup=query", "multi=1&multi=2", "getPram=bar&bad=%zz"}

PostFormOpts ==
    { NilValues,
      Values(("formPram" :> <<"baz">>) @@ ("dup" :> <<"form">>)),
      Values(("multi" :> <<"a", "b">>)),
      Values(("formPram" :> <<>>)) }

BodyOpts == {NilBody, FailingBody, Body(JSONObjText), Body(JSONArrText), Body(FormText),
             Body(BadFormText)}

Request(addr, method, url, header, postForm, body) ==
    [RemoteAddr |-> addr, Method |-> method, URL |-> url, Header |-> header,
     PostForm |-> postForm, FormNil |-> TRUE, Body |-> body]

Requests ==
    {Request(a, m, URL(q), h, pf, b) :
        a \in {HostPort}, m \in {"GET", "POST"}, q \in QueryOpts,
        h \in HeaderOpts, pf \in PostFormOpts, b \in BodyOpts}
    \cup {Request(BadAddr, "POST", URL(""), <<>>, NilValues, Body(JSONObjText)),
          Request(HostPort, "POST", NilURL, <<>>, NilValues, Body(JSONObjText))}

(***************************************************************************)
(* Specification SpecReq: richRequest called repeatedly on one request.    *)
(***************************************************************************)
InitReq ==
    /\ hreq \in Requests
    /\ hpre = hreq
    /\ hargs \in {[status |-> "", duration |-> ""], [status |-> "202", duration |-> "100"]}
    /\ hout = <<>>
    /\ hcalls = 0
    /\ IdleIP /\ IdleErr /\ IdleFmt

CallRichRequest ==
    /\ hcalls < MaxRichCalls
    /\ \E headers \in HeaderViews(hreq.Header) :
          LET res == richRequest(hreq, hargs.status, hargs.duration, headers)
          IN  /\ hout' = Append(hout, [panic |-> res.panic, data |-> res.data])
              /\ hreq' = res.req
    /\ hpre' = hreq
    /\ hcalls' = hcalls + 1
    /\ UNCHANGED <<hargs, ipVars, errVars, fmtVars>>

NextReq == CallRichRequest

SpecReq == InitReq /\ [][NextReq]_vars

(***************************************************************************)
(* Properties of richRequest.                                              *)
(***************************************************************************)
Completed == hcalls > 0 /\ ~hout[hcalls].panic
LastData == hout[hcalls].data

\* a single value as a scalar, repeated values as a sequence
ScalarOrSequence(v) ==
    IF Len(v) = 1 THEN [tag |-> "string", s |-> v[1]] ELSE [tag |-> "strings", l |-> v]

\* the three sources as the call found them: the query-string values, the
\* form values when form parsing succeeded, the JSON object when the
\* content type names JSON and the body decodes to an object
QuerySource == ParseQuery(hpre.URL.RawQuery).vals

FormSource == IF ParseForm(hpre).err THEN <<>> ELSE ParseForm(hpre).req.PostForm.m

JSONSource ==
    LET body == ParseForm(hpre).req.Body
    IN  IF ContainsJSON(ContentTypeOf(LastData.Headers)) /\ ~body.fails
           /\ JSONDecode(body.text).ok
        THEN JSONDecode(body.text).obj
        ELSE <<>>

\* C4: param is the merge of query, then form, then JSON parameters, the
\* later source winning a key collision; every key of a source is in param;
\* single query/form values are scalars, repeated values sequences.
C4_ParamMerge ==
    Completed =>
        /\ DOMAIN LastData.Param = DOMAIN QuerySource \cup DOMAIN FormSource \cup DOMAIN JSONSource
        /\ \A k \in DOMAIN LastData.Param :
              LastData.Param[k] =
                  IF k \in DOMAIN JSONSource THEN JSONSource[k]
                  ELSE IF k \in DOMAIN FormSource THEN ScalarOrSequence(FormSource[k])
                  ELSE ScalarOrSequence(QuerySource[k])

\* a key present in the query string, the form and the JSON body has
\* resolved to the JSON value, next to a key only the query string has
C4_Witness ==
    /\ Completed
    /\ "dup" \in DOMAIN QuerySource /\ "dup" \in DOMAIN FormSource /\ "dup" \in DOMAIN JSONSource
    /\ LastData.Param["dup"] = [tag |-> "string", s |-> "json"]
    /\ LastData.Param["getPram"] = [tag |-> "string", s |-> "bar"]

FormParsingReadsBody(r) ==
    /\ r.PostForm.nil
    /\ r.Method \in {"POST", "PUT", "PATCH"}
    /\ "Content-Type" \in DOMAIN r.Header
    /\ Len(r.Header["Content-Type"]) > 0
    /\ LET ct == r.Header["Content-Type"][1]
       IN  /\ Len(ct) > 0
           /\ ct[1] = "application/x-www-form-urlencoded"
           /\ (Len(ct) > 1 => ct[2] = ";")

SchemaGeneralLogsV1 == "general.logs.v1"
SchemaHTTPRequestV1 == "http.request.v1"

Service == "test"
Environment == "test"
EntryTime == "2026-01-02T15:04:05.999+08:00"   \* entry.Time.Format(af.TimeLayout)
EntryLevel == "info"                           \* entry.Level.String()

Reserved == {"channel", "request", "user", "status", "duration"}

\* the zero LogsV1 that logsV1Pool.New returns
ZeroLogsV1 ==
    [Schema |-> "", Time |-> "", Level |-> "", Service |-> "", Channel |-> "",
     Environment |-> "", User |-> "", Message |-> "", Context |-> <<>>,
     Request |-> NilRequestData]

\* the locals of Format after the field loop (lines 122-164)
ChannelOf(e) ==
    IF "channel" \in DOMAIN e.Data /\ e.Data["channel"].tag = "string"
    THEN e.Data["channel"].s ELSE ""

SprintField(e, k) == IF k \in DOMAIN e.Data THEN Sprint(e.Data[k]) ELSE ""

CallerContext(e) ==
    IF e.HasCaller
    THEN ("file" :> Str("main.go:10")) @@ ("func" :> Str("main.run"))
    ELSE <<>>

ContextValue(v) == IF v.tag = "error" THEN ErrFields(v) ELSE v

ContextOf(e) ==
    [k \in (DOMAIN e.Data \ Reserved) |-> ContextValue(e.Data[k])] @@ CallerContext(e)

\* rv, ok := entry.Data["request"]; req, ok := rv.(*http.Request)
IsHTTPRequestAnyType(e) == "request" \in DOMAIN e.Data

IsHTTPRequest(e) == "request" \in DOMAIN e.Data /\ e.Data["request"].tag = "request"

\* logsV1Pool.Get leaves the record in the pool
PoolGetKeep(pool, r) == pool

\* logsV1Pool.Get takes the record out of the pool
PoolGet(pool, r) == pool \ {r}

\* encoding/json of a field value: [ok, v]
EncodeValue(v) ==
    CASE v.tag = "chan" -> [ok |-> FALSE, v |-> v]
      [] v.tag = "request" -> [ok |-> FALSE, v |-> v]
      [] v.tag = "fields" -> [ok |-> TRUE, v |-> v.f]
      [] v.tag = "strings" -> [ok |-> TRUE, v |-> v.l]
      [] v.tag = "string" -> [ok |-> TRUE, v |-> <<"\"", v.s, "\"">>]
      [] v.tag = "int" -> [ok |-> TRUE, v |-> <<ToString(v.n)>>]

EncodeMap(m) == [k \in DOMAIN m |-> EncodeValue(m[k]).v]

EncodeRequest(d) ==
    [ip |-> d.IP, method |-> d.Method, path |-> d.Path, header |-> d.Headers,
     status |-> d.Status, duration |-> d.Duration, param |-> EncodeMap(d.Param)]

\* jsoniter.NewEncoder(b).Encode(data): [ok, doc]; "request" is omitempty
EncodeLogsV1(d) ==
    LET top == [schema |-> d.Schema, t |-> d.Time, l |-> d.Level, s |-> d.Service,
                c |-> d.Channel, e |-> d.Environment, u |-> d.User, m |-> d.Message,
                ctx |-> EncodeMap(d.Context)]
        ok == /\ \A k \in DOMAIN d.Context : EncodeValue(d.Context[k]).ok
              /\ ("nil" \in DOMAIN d.Request
                    \/ \A k \in DOMAIN d.Request.Param : EncodeValue(d.Request.Param[k]).ok)
    IN  [ok |-> ok,
         doc |-> IF "nil" \in DOMAIN d.Request THEN top
                 ELSE top @@ ("request" :> EncodeRequest(d.Request))]

\* what a call returned: the bytes of the buffer, the wrapped encoding error
\* (errors.Wrapf(err, "json encode %s log", schema)), or a panic
NoReturn == [kind |-> "none", bytes |-> <<>>, msg |-> <<>>]
Bytes(b) == [kind |-> "bytes", bytes |-> b, msg |-> <<>>]
EncodeError(schema) == [kind |-> "error", bytes |-> <<>>, msg |-> <<"json encode ", schema, " log">>]
Panicked == [kind |-> "panic", bytes |-> <<>>, msg |-> <<>>]

Callers == IF workload = "conc" THEN {1, 2} ELSE {1}
AllCallers == {1, 2}

\* lines 122-175: the field loop, logsV1Pool.Get, the assignments, the defer
FormatAcquire(p, e) ==
    \E r \in free \cup (IF Len(rec) < MaxRecords THEN {Len(rec) + 1} ELSE {}) :
        LET old == IF r \in free THEN rec[r] ELSE ZeroLogsV1
            data == [old EXCEPT !.Time = EntryTime, !.Level = EntryLevel,
                                !.Service = Service, !.Channel = ChannelOf(e),
                                !.Environment = Environment, !.Message = e.Message,
                                !.Context = ContextOf(e), !.User = SprintField(e, "user")]
        IN  /\ rec' = IF r \in free THEN [rec EXCEPT ![r] = data] ELSE Append(rec, data)
            /\ free' = IF r \in free THEN PoolGet(free, r) ELSE free
            /\ held' = [held EXCEPT ![p] = r]
            /\ acc' = [acc EXCEPT ![p] = <<"get", "write">>]
            /\ pc' = [pc EXCEPT ![p] = "request"]
            /\ calls' = [calls EXCEPT ![p] = @ + 1]

\* lines 177-184: the request, when the entry carries one, and the schema
FormatRequest(p) ==
    /\ pc[p] = "request"
    /\ IF IsHTTPRequest(entry[p])
       THEN \E headers \in HeaderViews(req[p].Header) :
              LET res == richRequest(req[p], SprintField(entry[p], "status"),
                                     SprintField(entry[p], "duration"), headers)
              IN  /\ req' = [req EXCEPT ![p] = res.req]
                  /\ IF res.panic
                     THEN /\ pc' = [pc EXCEPT ![p] = "unwind"]
                          /\ UNCHANGED <<rec, acc>>
                     ELSE /\ rec' = [rec EXCEPT ![held[p]].Request = res.data,
                                                ![held[p]].Schema = SchemaHTTPRequestV1]
                          /\ acc' = [acc EXCEPT ![p] = Append(@, "write")]
                          /\ pc' = [pc EXCEPT ![p] = "encode"]
       ELSE /\ rec' = [rec EXCEPT ![held[p]].Schema = SchemaGeneralLogsV1]
            /\ acc' = [acc EXCEPT ![p] = Append(@, "write")]
            /\ pc' = [pc EXCEPT ![p] = "encode"]
            /\ UNCHANGED req
    /\ UNCHANGED <<workload, entry, buf, held, ret, prev, calls, free>>
    /\ UNCHANGED <<ipVars, errVars, richVars>>

\* lines 186-197: the buffer, the encoding, the value to return
FormatEncode(p) ==
    /\ pc[p] = "encode"
    /\ LET enc == EncodeLogsV1(rec[held[p]])
           b == IF entry[p].HasBuffer THEN buf[p] ELSE <<>>
       IN  IF enc.ok
           THEN /\ buf' = [buf EXCEPT ![p] = IF entry[p].HasBuffer THEN Append(b, enc.doc) ELSE @]
                /\ ret' = [ret EXCEPT ![p] = Bytes(Append(b, enc.doc))]
           ELSE /\ ret' = [ret EXCEPT ![p] = EncodeError(IF IsHTTPRequest(entry[p])
                                                             THEN SchemaHTTPRequestV1
                                                             ELSE SchemaGeneralLogsV1)]
                /\ UNCHANGED buf
    /\ acc' = [acc EXCEPT ![p] = Append(@, "encode")]
    /\ pc' = [pc EXCEPT ![p] = "return"]
    /\ UNCHANGED <<workload, entry, req, held, prev, calls, rec, free>>
    /\ UNCHANGED <<ipVars, errVars, richVars>>

\* the deferred logsV1Pool.Put(data), on return and on a panic
FormatReturn(p) ==
    /\ pc[p] \in {"return", "unwind"}
    /\ free' = free \cup {held[p]}
    /\ held' = [held EXCEPT ![p] = 0]
    /\ acc' = [acc EXCEPT ![p] = Append(@, "put")]
    /\ ret' = [ret EXCEPT ![p] = IF pc[p] = "unwind" THEN Panicked ELSE @]
    /\ pc' = [pc EXCEPT ![p] = "idle"]
    /\ UNCHANGED <<workload, entry, req, buf, prev, calls, rec>>
    /\ UNCHANGED <<ipVars, errVars, richVars>>

(***************************************************************************)
(* Bounded entries.                                                        *)
(***************************************************************************)
NoRequest == Request(<<>>, "", URL(""), <<>>, NilValues, NilBody)

TestRequest ==
    Request(HostPort, "POST", URL("getPram=bar&dup=query"),
            ("Content-Type" :> <<JSONCT>>) @@ ("X-Test" :> <<<<"1">>, <<"2">>>>),
            Values(("formPram" :> <<"baz">>) @@ ("dup" :> <<"form">>)),
            Body(JSONObjText))

BadQueryRequest ==
    Request(HostPort, "GET", URL("getPram=bar&bad=%zz"), <<>>,
            Values(("formPram" :> <<"baz">>)), NilBody)

EmptyHeaderRequest ==
    Request(HostPort, "GET", URL(""), ("X-Test" :> <<>>), NilValues, NilBody)

NoURLRequest == Request(HostPort, "GET", NilURL, <<>>, NilValues, NilBody)

NoBodyRequest ==
    Request(BadAddr, "POST", URL(""), ("Content-Type" :> <<JSONCT>>), NilValues, NilBody)

CollidingHeaderRequest ==
    Request(HostPort, "GET", URL(""),
            ("Content-Type" :> <<TEXTCT>>) @@ ("content-type" :> <<JSONCT>>),
            NilValues, Body(JSONObjText))

Entry(data, template, caller, buffer) ==
    [Data |-> data, Template |-> template, HasCaller |-> caller, HasBuffer |-> buffer,
     Message |-> "hello"]

ReservedOpts ==
    { <<>>,
      ("channel" :> Str("web")) @@ ("user" :> Num(65535)) @@ ("status" :> Num(202))
          @@ ("duration" :> Num(100)),
      ("channel" :> Num(7)) @@ ("user" :> Str("bob")) }

ExtraOpts ==
    { <<>>,
      ("k" :> Str("v")) @@ ("error" :> ErrValue("error occurred", FALSE, 0)),
      ("k" :> Chan) }

HTTP(template) == [d |-> ("request" :> ReqPtr), t |-> template]

RequestOpts ==
    { [d |-> <<>>, t |-> NoRequest],
      [d |-> ("request" :> Str("not a request")), t |-> NoRequest],
      HTTP(TestRequest),
      HTTP(BadQueryRequest) }

FullFields == CHOOSE f \in ReservedOpts : "status" \in DOMAIN f

SeqEntries ==
    {Entry(rs @@ rq.d @@ ex, rq.t, FALSE, FALSE) :
        rs \in ReservedOpts, rq \in RequestOpts, ex \in ExtraOpts}
    \cup {Entry(FullFields @@ rq.d, rq.t, TRUE, TRUE) :
            rq \in {[d |-> <<>>, t |-> NoRequest], HTTP(TestRequest)}}
    \cup {Entry(("file" :> Str("own.go:1")), NoRequest, TRUE, FALSE)}
    \cup {Entry(HTTP(t).d, t, FALSE, FALSE) :
            t \in {EmptyHeaderRequest, NoURLRequest, NoBodyRequest, CollidingHeaderRequest}}

ConcEntries ==
    { Entry(FullFields @@ ("k" :> Str("v")), NoRequest, FALSE, FALSE),
      Entry(FullFields @@ HTTP(TestRequest).d, TestRequest, FALSE, FALSE),
      Entry(("k" :> Chan), NoRequest, FALSE, FALSE) }

Entries == IF workload = "conc" THEN ConcEntries ELSE SeqEntries

\* a caller hands a fresh entry to Format
CallFormat(p) ==
    /\ pc[p] = "idle"
    /\ calls[p] < MaxCalls
    /\ \E e \in Entries :
          /\ entry' = [entry EXCEPT ![p] = e]
          /\ req' = [req EXCEPT ![p] = e.Template]
          /\ buf' = [buf EXCEPT ![p] = <<>>]
          /\ prev' = [prev EXCEPT ![p] = NoReturn]
          /\ FormatAcquire(p, e)
    /\ UNCHANGED <<workload, ret>>
    /\ UNCHANGED <<ipVars, errVars, richVars>>

\* a caller hands the entry of its last call to Format again, untouched
CallFormatAgain(p) ==
    /\ pc[p] = "idle"
    /\ calls[p] > 0
    /\ calls[p] < MaxCalls
    /\ prev' = [prev EXCEPT ![p] = ret[p]]
    /\ FormatAcquire(p, entry[p])
    /\ UNCHANGED <<workload, entry, req, buf, ret>>
    /\ UNCHANGED <<ipVars, errVars, richVars>>

InitFmt(w) ==
    /\ workload = w
    /\ pc = [p \in AllCallers |-> "idle"]
    /\ entry = [p \in AllCallers |-> Entry(<<>>, NoRequest, FALSE, FALSE)]
    /\ req = [p \in AllCallers |-> NoRequest]
    /\ buf = [p \in AllCallers |-> <<>>]
    /\ held = [p \in AllCallers |-> 0]
    /\ ret = [p \in AllCallers |-> NoReturn]
    /\ prev = [p \in AllCallers |-> NoReturn]
    /\ calls = [p \in AllCallers |-> 0]
    /\ acc = [p \in AllCallers |-> <<>>]
    /\ rec = <<>>
    /\ free = {}
    /\ IdleIP /\ IdleErr /\ IdleReq

NextFmt ==
    \/ \E p \in Callers : CallFormat(p)
    \/ \E p \in Callers : CallFormatAgain(p)
    \/ \E p \in Callers : FormatRequest(p)
    \/ \E p \in Callers : FormatEncode(p)
    \/ \E p \in Callers : FormatReturn(p)

\* concurrent callers sharing logsV1Pool
InitConc == InitFmt("conc")
Spec == InitConc /\ [][NextFmt]_vars

\* one caller, every bounded entry
InitSeq == InitFmt("seq")
SpecSeq == InitSeq /\ [][NextFmt]_vars

(***************************************************************************)
(* Properties of Format.                                                   *)
(***************************************************************************)
Returned(p) == pc[p] = "idle" /\ ret[p].kind = "bytes"

\* the record this call wrote: the last document of the returned bytes
Doc(p) == ret[p].bytes[Len(ret[p].bytes)]

CarriesRequest(e) == "request" \in DOMAIN e.Data /\ e.Data["request"] = ReqPtr

OwnContextKeys(e) ==
    (DOMAIN e.Data \ Reserved) \cup (IF e.HasCaller THEN {"file", "func"} ELSE {})

\* C1: whatever calls came before and whichever pooled record is drawn, a
\* call whose entry carries no HTTP request emits no request object, and its
\* ctx holds only keys of its own entry.
C1_NoLeak ==
    \A p \in Callers :
        (Returned(p) /\ ~CarriesRequest(entry[p])) =>
            /\ "request" \notin DOMAIN Doc(p)
            /\ DOMAIN Doc(p).ctx \subseteq OwnContextKeys(entry[p])

\* C2: a second Format call on the same, untouched entry returns what the
\* first returned (ctx and param are compared as unordered maps).
C2_Idempotent ==
    \A p \in Callers :
        (pc[p] = "idle" /\ prev[p].kind # "none") => ret[p] = prev[p]

\* C3: the schema emitted is http.request.v1 exactly when the entry's field
\* map has a request key holding an *http.Request, general.logs.v1 otherwise.
ExpectedSchema(e) ==
    IF CarriesRequest(e) THEN "http.request.v1" ELSE "general.logs.v1"

C3_SchemaSelection ==
    \A p \in Callers :
        /\ Returned(p) => Doc(p).schema = ExpectedSchema(entry[p])
        /\ (pc[p] = "idle" /\ ret[p].kind = "error") =>
              ret[p].msg[2] = ExpectedSchema(entry[p])

\* an entry whose request value is of another type has been formatted under
\* the general schema
C3_Witness ==
    \E p \in Callers :
        /\ Returned(p)
        /\ "request" \in DOMAIN entry[p].Data
        /\ entry[p].Data["request"] = Str("not a request")
        /\ Doc(p).schema = "general.logs.v1"

\* C5: no reserved key is in ctx, every other field key is; u is the default
\* string conversion of user, c the channel when it is a string; status and
\* duration appear as request.status / request.duration only with a request.
DefaultString(e, k) ==
    IF k \notin DOMAIN e.Data THEN ""
    ELSE IF e.Data[k].tag = "int" THEN ToString(e.Data[k].n)
    ELSE e.Data[k].s

C5_FieldPartition ==
    \A p \in Callers :
        Returned(p) =>
            LET e == entry[p]
                doc == Doc(p)
            IN  /\ DOMAIN doc.ctx \cap Reserved = {}
                /\ (DOMAIN e.Data \ Reserved) \subseteq DOMAIN doc.ctx
                /\ doc.u = DefaultString(e, "user")
                /\ doc.c = (IF "channel" \in DOMAIN e.Data /\ e.Data["channel"].tag = "string"
                            THEN e.Data["channel"].s ELSE "")
                /\ IF CarriesRequest(e)
                   THEN /\ "request" \in DOMAIN doc
                        /\ doc.request.status = DefaultString(e, "status")
                        /\ doc.request.duration = DefaultString(e, "duration")
                   ELSE "request" \notin DOMAIN doc

\* C6: Format always runs to completion: it returns bytes or the encoding
\* error and never aborts part-way.
C6_BestEffort ==
    \A p \in Callers : pc[p] # "unwind" /\ ret[p].kind # "panic"

\* C7: a pooled record is in the hands of at most one call and then not in
\* the pool; a call puts its record back once, as its last access, and a call
\* that returns bytes or the encoding error has encoded before.
Occurrences(s, x) == Cardinality({i \in 1..Len(s) : s[i] = x})

C7_PoolOwnership ==
    /\ \A p, q \in Callers : (p # q /\ held[p] # 0) => held[p] # held[q]
    /\ \A p \in Callers : held[p] # 0 => held[p] \notin free
    /\ \A p \in Callers :
          /\ (pc[p] # "idle") => (held[p] # 0 /\ Occurrences(acc[p], "put") = 0)
          /\ (pc[p] = "idle" /\ calls[p] > 0) =>
                /\ held[p] = 0
                /\ Occurrences(acc[p], "put") = 1
                /\ acc[p][Len(acc[p])] = "put"
                /\ (ret[p].kind \in {"bytes", "error"} =>
                      acc[p][Len(acc[p]) - 1] = "encode")

\* two calls in flight, each with a record of its own, one of them reused
C7_Witness ==
    \E p, q \in Callers :
        /\ p # q
        /\ pc[p] = "encode" /\ pc[q] = "return"
        /\ held[p] # held[q]
        /\ calls[p] = 2
        /\ ret[p].kind = "error"

====
